---- MODULE Spec2Model ----
(***************************************************************************)
(* The Index of hhx (package models): the three file populations Files     *)
(* (working/staged), Synced and Deleted, the operations that move records  *)
(* between them, the working tree they are computed from, the index file   *)
(* on disk, and the commands that load, change and save the Index.         *)
(***************************************************************************)
EXTENDS Integers, Sequences, FiniteSets, TLC

\* ------------------------------------------------------------------ bounds
\* Number of changes the environment makes to the working tree in one run.
MaxFsChanges == 2
\* Number of staged records MarkSynced moves into Synced in one run.
MaxUploads == 2

\* ------------------------------------------------------------ working tree
\* The repository root and the directories below it.
Root == "."
Dirs == {Root, ".cfg", "build"}

\* The regular-file paths of the tree, relative to the root, slash separated.
FilePaths == {".cfg/h.txt", "a.txt", "b.txt", "build/o.bin"}

\* The file other programs rewrite, remove or make unreadable during a run;
\* the other files stay as they are.
EditedPaths == {"b.txt"}

\* Every entry below the root in the order filepath.Walk visits it
\* (lexical order inside each directory, a directory before its contents).
WalkOrder == <<".cfg", ".cfg/h.txt", "a.txt", "b.txt", "build", "build/o.bin">>

\* The directory that holds an entry.
Parent(e) ==
    CASE e = ".cfg"        -> Root
      [] e = ".cfg/h.txt"  -> ".cfg"
      [] e = "a.txt"       -> Root
      [] e = "b.txt"       -> Root
      [] e = "build"       -> Root
      [] e = "build/o.bin" -> "build"
      [] OTHER             -> Root

\* info.Name(): the last element of a path.
BaseName(e) ==
    CASE e = Root          -> "repo"
      [] e = ".cfg"        -> ".cfg"
      [] e = ".cfg/h.txt"  -> "h.txt"
      [] e = "a.txt"       -> "a.txt"
      [] e = "b.txt"       -> "b.txt"
      [] e = "build"       -> "build"
      [] e = "build/o.bin" -> "o.bin"
      [] OTHER             -> e

\* info.Name()[0] == '.'
StartsWithDot(name) == name \in {".cfg", ".git", ".hhx"}

\* File contents, and what stat and sha256 give for them.
NoFile == [exists |-> FALSE]
SizeOf(d) == IF d = "x" THEN 10 ELSE 20
hashFile(d) == IF d = "x" THEN "H1" ELSE "H2"

\* A readable file holding d, as a write of d leaves it.
NewContent(d) ==
    [exists |-> TRUE, data |-> d, mtime |-> IF d = "x" THEN 1 ELSE 2,
     readable |-> TRUE]

\* Remote locations a server response can carry (the empty string included).
URLs == {"", "u1"}

StatusUntracked == "untracked"
StatusModified  == "modified"
StatusStaged    == "staged"
StatusSynced    == "synced"

VARIABLES
    fs,         \* working tree: file path -> NoFile or [exists, data, mtime, readable]
    fsChanges,  \* number of changes made to the working tree so far
    uploads,    \* number of records the calls of Spec and SpecCmd have moved to Synced
    Files,      \* Index.Files: path -> File (staged)
    Synced,     \* Index.Synced: path -> File
    Deleted,    \* Index.Deleted: path -> File
    disk,       \* the index file: absent, or the JSON document last saved
    last,       \* what the last Index operation or command returned
    unlistable, \* the directories whose entries cannot be read
    Collections,        \* Index.Collections: name -> Collection
    DefaultCollection,  \* Index.DefaultCollection
    mu,         \* Index.mu: the goroutine holding the write lock, the read holders
    procs,      \* goroutine -> the call it is in, its position and its locals
    issued,     \* number of calls goroutines have made so far
    held        \* the records of a slice a caller got from the Index and kept

\* The state of the goroutines calling into one Index and of what they hold.
callVars == <<mu, procs, issued, held>>

vars == <<fs, fsChanges, uploads, Files, Synced, Deleted, disk, last,
          unlistable, Collections, DefaultCollection, mu, procs, issued, held>>

\* ------------------------------------------------------------ map helpers
Remove(m, k) == [x \in DOMAIN m \ {k} |-> m[x]]
Put(m, k, v) == [x \in DOMAIN m \cup {k} |-> IF x = k THEN v ELSE m[x]]
EmptyMap == [x \in {} |-> x]

\* The Index held in memory, and NewIndex.
Index == [Files |-> Files, Synced |-> Synced, Deleted |-> Deleted,
          Collections |-> Collections, DefaultCollection |-> DefaultCollection]
NewIndex == [Files |-> EmptyMap, Synced |-> EmptyMap, Deleted |-> EmptyMap,
             Collections |-> EmptyMap, DefaultCollection |-> ""]

\* The in-memory Index becomes idx.
SetIndex(idx) ==
    /\ Files' = idx.Files
    /\ Synced' = idx.Synced
    /\ Deleted' = idx.Deleted

\* ------------------------------------------------------------------ File
\* NewFileFromPath with the hashing error dropped: an unreadable file yields a
\* record with an empty hash.
NewFileFromPath_IgnoresHashError(path) ==
    IF path \in Dirs THEN [kind |-> "dir"]
    ELSE IF ~fs[path].exists THEN [kind |-> "err"]
    ELSE [kind |-> "file",
          file |-> [Path         |-> path,
                    Size         |-> SizeOf(fs[path].data),
                    Hash         |-> IF fs[path].readable
                                     THEN hashFile(fs[path].data) ELSE "",
                    LastModified |-> fs[path].mtime,
                    Status       |-> StatusUntracked,
                    RemoteURL    |-> ""]]

\* models.File built by NewFileFromPath: outcome "err", "dir" or "file".
NewFileFromPath(path) ==
    IF path \in Dirs THEN [kind |-> "dir"]
    ELSE IF ~fs[path].exists THEN [kind |-> "err"]
    ELSE IF ~fs[path].readable THEN [kind |-> "err"]
    ELSE [kind |-> "file",
          file |-> [Path         |-> path,
                    Size         |-> SizeOf(fs[path].data),
                    Hash         |-> hashFile(fs[path].data),
                    LastModified |-> fs[path].mtime,
                    Status       |-> StatusUntracked,
                    RemoteURL    |-> ""]]

\* Classify with the remote URL carried forward only when the hash matches.
Classify_DropsURLWhenModified(synced, file) ==
    LET c == IF file.Path \in DOMAIN synced /\ synced[file.Path].Hash = file.Hash
             THEN [file EXCEPT !.RemoteURL = synced[file.Path].RemoteURL]
             ELSE file
    IN  [c EXCEPT !.Status = StatusStaged]

\* Classify without the final file.Status = StatusStaged.
Classify_KeepsClassification(synced, file) ==
    IF file.Path \in DOMAIN synced
    THEN IF synced[file.Path].Hash = file.Hash
         THEN [file EXCEPT !.Status = StatusSynced,
                           !.RemoteURL = synced[file.Path].RemoteURL]
         ELSE [file EXCEPT !.Status = StatusModified,
                           !.RemoteURL = synced[file.Path].RemoteURL]
    ELSE [file EXCEPT !.Status = StatusUntracked]

\* The classification against Synced done by StageFile and StageDirectory,
\* followed by the forced status Staged.
Classify(synced, file) ==
    LET c == IF file.Path \in DOMAIN synced
             THEN IF synced[file.Path].Hash = file.Hash
                  THEN [file EXCEPT !.Status = StatusSynced,
                                    !.RemoteURL = synced[file.Path].RemoteURL]
                  ELSE [file EXCEPT !.Status = StatusModified,
                                    !.RemoteURL = synced[file.Path].RemoteURL]
             ELSE [file EXCEPT !.Status = StatusUntracked]
    IN  [c EXCEPT !.Status = StatusStaged]

\* What the last operation returned: nothing worth keeping ("none", also a nil
\* error), the non-nil error of StageFile ("error") or of StageDirectory
\* ("walk error"), or the three slices of a scan ("scan"); for a push, the
\* paths it sent and the server's response.
\* The paths of the records of a slice.
PathsOf(list) == {list[i].Path : i \in DOMAIN list}

NoResult == [kind |-> "none",
             newFiles |-> <<>>, modifiedFiles |-> <<>>, deletedFiles |-> <<>>,
             pushed |-> {}, uploaded |-> <<>>, errors |-> {}]

\* ------------------------------------------------- operations on an Index
\* The effect of Index.StageFile on idx, and the outcome of NewFileFromPath.
StageFileOp(idx, path) ==
    LET r == NewFileFromPath(path) IN
    IF r.kind = "file"
    THEN [kind |-> r.kind,
          idx  |-> [idx EXCEPT
                      !.Files = Put(@, r.file.Path, Classify(idx.Synced, r.file)),
                      !.Deleted = Remove(@, r.file.Path)]]
    ELSE [kind |-> r.kind, idx |-> idx]

\* UnstageFile that also forgets the synced record of the path.
UnstageFileOp_DropsSynced(idx, path) ==
    [idx EXCEPT !.Files = Remove(@, path), !.Synced = Remove(@, path)]

\* The effect of Index.UnstageFile on idx.
UnstageFileOp(idx, path) == [idx EXCEPT !.Files = Remove(@, path)]

\* MarkSynced that, for a path that is not staged, rewrites the remote URL of
\* the path's synced record.
MarkSyncedOp_UpdatesSynced(idx, path, remoteURL) ==
    IF path \in DOMAIN idx.Files
    THEN [idx EXCEPT !.Synced = Put(@, path,
                         [idx.Files[path] EXCEPT !.Status = StatusSynced,
                                                 !.RemoteURL = remoteURL]),
                     !.Files = Remove(@, path)]
    ELSE IF path \in DOMAIN idx.Synced
    THEN [idx EXCEPT !.Synced[path].RemoteURL = remoteURL]
    ELSE idx

\* MarkSynced without its delete(idx.Files, path).
MarkSyncedOp_KeepsStaged(idx, path, remoteURL) ==
    IF path \in DOMAIN idx.Files
    THEN [idx EXCEPT !.Synced = Put(@, path,
                         [idx.Files[path] EXCEPT !.Status = StatusSynced,
                                                 !.RemoteURL = remoteURL])]
    ELSE idx

\* The effect of Index.MarkSynced on idx.
MarkSyncedOp(idx, path, remoteURL) ==
    IF path \in DOMAIN idx.Files
    THEN [idx EXCEPT !.Synced = Put(@, path,
                         [idx.Files[path] EXCEPT !.Status = StatusSynced,
                                                 !.RemoteURL = remoteURL]),
                     !.Files = Remove(@, path)]
    ELSE idx

\* ------------------------------------------------------------------ walks
\* e lies below directory d (or is d).
RECURSIVE IsUnder(_, _)
IsUnder(e, d) ==
    IF e = d THEN TRUE
    ELSE IF e = Root THEN FALSE
    ELSE IsUnder(Parent(e), d)

\* The directory test of StageDirectory's callback.
StageSkipsDir(name) ==
    name = ".git" \/ name = ".hhx" \/ StartsWithDot(name)

\* The directory tests of ScanWorkingDirectory's callback.
ScanSkipsDir(name) ==
    \/ name = ".git" \/ name = ".hhx" \/ StartsWithDot(name)
    \/ name = "cmake-build-debug" \/ name = "build"

\* strings.HasPrefix(relPath, ".hhx/")
InHhxDir(relPath) == Parent(relPath) = ".hhx"

\* The entries filepath.Walk(d) hands to the callback, d first.
WalkEntries(d) == <<d>> \o SelectSeq(WalkOrder, LAMBDA e : e # d /\ IsUnder(e, d))

\* One callback of StageDirectory on entry e; acc = [skipped, files, err]:
\* the directories skipped so far, idx.Files, and whether the walk has ended
\* with an error. filepath.Walk hands a directory it cannot read to the
\* callback together with the error, and the callback returns that error.
StageDirStep(synced, acc, e) ==
    IF acc.err THEN acc
    ELSE IF e # Root /\ Parent(e) \in acc.skipped
       THEN [acc EXCEPT !.skipped = IF e \in Dirs THEN @ \cup {e} ELSE @]
    ELSE IF e \in Dirs
       THEN IF e \in unlistable
            THEN [acc EXCEPT !.err = TRUE]
            ELSE IF StageSkipsDir(BaseName(e))
            THEN [acc EXCEPT !.skipped = @ \cup {e}]
            ELSE acc
    ELSE IF ~fs[e].exists THEN acc
    ELSE LET r == NewFileFromPath(e) IN
         IF r.kind = "err" THEN [acc EXCEPT !.err = TRUE]
         ELSE [acc EXCEPT !.files = Put(@, r.file.Path, Classify(synced, r.file))]

RECURSIVE StageDirWalk(_, _, _, _)
StageDirWalk(synced, entries, i, acc) ==
    IF i > Len(entries) THEN acc
    ELSE StageDirWalk(synced, entries, i + 1, StageDirStep(synced, acc, entries[i]))

\* The effect of Index.StageDirectory on idx, and whether it returned an error.
StageDirectoryOp(idx, dirPath) ==
    LET r == StageDirWalk(idx.Synced, WalkEntries(dirPath), 1,
                          [skipped |-> {}, files |-> idx.Files, err |-> FALSE])
    IN  [err |-> r.err, idx |-> [idx EXCEPT !.Files = r.files]]

\* ModifiedRecord without the RemoteURL of the synced record.
ModifiedRecord_NoURL(synced, e) ==
    [Path         |-> e,
     Size         |-> SizeOf(fs[e].data),
     Hash         |-> hashFile(fs[e].data),
     LastModified |-> fs[e].mtime,
     Status       |-> StatusModified,
     RemoteURL    |-> ""]

\* The record ScanWorkingDirectory builds for a synced file whose hash changed.
ModifiedRecord(synced, e) ==
    [Path         |-> e,
     Size         |-> SizeOf(fs[e].data),
     Hash         |-> hashFile(fs[e].data),
     LastModified |-> fs[e].mtime,
     Status       |-> StatusModified,
     RemoteURL    |-> synced[e].RemoteURL]

\* The record ScanWorkingDirectory builds for a file that is not in Synced.
NewRecord(e) ==
    [Path         |-> e,
     Size         |-> SizeOf(fs[e].data),
     Hash         |-> hashFile(fs[e].data),
     LastModified |-> fs[e].mtime,
     Status       |-> StatusUntracked,
     RemoteURL    |-> ""]

\* ScanClassify that passes over a file that is currently staged.
ScanClassify_SkipsStaged(idx, acc, e) ==
    IF e \in DOMAIN idx.Files
    THEN [acc EXCEPT !.seen = @ \cup {e}]
    ELSE IF e \in DOMAIN idx.Synced
    THEN IF idx.Synced[e].Hash # hashFile(fs[e].data)
         THEN [acc EXCEPT !.seen = @ \cup {e},
                          !.modifiedFiles = Append(@, ModifiedRecord(idx.Synced, e))]
         ELSE [acc EXCEPT !.seen = @ \cup {e},
                          !.unchangedFiles = Append(@, idx.Synced[e])]
    ELSE [acc EXCEPT !.newFiles = Append(@, NewRecord(e))]

\* The classification of a hashed file e against idx.Synced.
ScanClassify(idx, acc, e) ==
    IF e \in DOMAIN idx.Synced
    THEN IF idx.Synced[e].Hash # hashFile(fs[e].data)
         THEN [acc EXCEPT !.seen = @ \cup {e},
                          !.modifiedFiles = Append(@, ModifiedRecord(idx.Synced, e))]
         ELSE [acc EXCEPT !.seen = @ \cup {e},
                          !.unchangedFiles = Append(@, idx.Synced[e])]
    ELSE [acc EXCEPT !.newFiles = Append(@, NewRecord(e))]

\* ScanStep that classifies a file it could not hash.
ScanStep_ClassifiesUnhashed(idx, acc, e) ==
    IF e # Root /\ Parent(e) \in acc.skipped
       THEN [acc EXCEPT !.skipped = IF e \in Dirs THEN @ \cup {e} ELSE @]
    ELSE IF e \in Dirs
       THEN IF ScanSkipsDir(BaseName(e)) \/ e \in unlistable
            THEN [acc EXCEPT !.skipped = @ \cup {e}]
            ELSE acc
    ELSE IF ~fs[e].exists THEN acc
    ELSE IF InHhxDir(e) THEN acc
    ELSE ScanClassify(idx, acc, e)

\* One callback of ScanWorkingDirectory on entry e;
\* acc = [skipped, seen, newFiles, modifiedFiles, unchangedFiles]. For a
\* directory filepath.Walk cannot read, the callback returns nil and the walk
\* goes on without the directory's entries.
ScanStep(idx, acc, e) ==
    IF e # Root /\ Parent(e) \in acc.skipped
       THEN [acc EXCEPT !.skipped = IF e \in Dirs THEN @ \cup {e} ELSE @]
    ELSE IF e \in Dirs
       THEN IF ScanSkipsDir(BaseName(e)) \/ e \in unlistable
            THEN [acc EXCEPT !.skipped = @ \cup {e}]
            ELSE acc
    ELSE IF ~fs[e].exists THEN acc
    ELSE IF InHhxDir(e) THEN acc
    ELSE IF ~fs[e].readable THEN acc
    ELSE ScanClassify(idx, acc, e)

RECURSIVE ScanWalk(_, _, _, _)
ScanWalk(idx, entries, i, acc) ==
    IF i > Len(entries) THEN acc
    ELSE ScanWalk(idx, entries, i + 1, ScanStep(idx, acc, entries[i]))

\* NotSeen with the test inverted (if wasSeen).
NotSeen_Inverted(synced, seen) == {p \in DOMAIN synced : p \in seen}

\* The paths of Synced the walk did not mark as seen.
NotSeen(synced, seen) == {p \in DOMAIN synced : p \notin seen}

\* The orders in which the range over the seen map can deliver a set of paths.
Orders(S) == {q \in [1..Cardinality(S) -> S] : \A p \in S : \E i \in DOMAIN q : q[i] = p}

\* The walk of ScanWorkingDirectory over the whole tree.
ScanTree(idx) ==
    ScanWalk(idx, WalkEntries(Root), 1,
             [skipped |-> {}, seen |-> {}, newFiles |-> <<>>,
              modifiedFiles |-> <<>>, unchangedFiles |-> <<>>])

\* The effect of Index.ScanWorkingDirectory on idx and the slices it returns,
\* when the range over the seen map delivers the unseen paths in order q.
ScanOp(idx, q) ==
    LET w == ScanTree(idx)
        gone == NotSeen(idx.Synced, w.seen)
        moved(p) == [idx.Synced[p] EXCEPT !.Status = StatusUntracked]
    IN  [newFiles      |-> w.newFiles,
         modifiedFiles |-> w.modifiedFiles,
         deletedFiles  |-> [i \in DOMAIN q |-> moved(q[i])],
         idx |-> [idx EXCEPT
                    !.Deleted = [p \in DOMAIN idx.Deleted \cup gone |->
                                    IF p \in gone THEN moved(p) ELSE idx.Deleted[p]],
                    !.Synced = [p \in DOMAIN idx.Synced \ gone |-> idx.Synced[p]]]]

\* The orders the deletion loop of a scan of idx can take.
ScanOrders(idx) == Orders(NotSeen(idx.Synced, ScanTree(idx).seen))

\* ------------------------------------------------- calls on the Index
\* Index.StageFile
StageFile(path) ==
    LET r == StageFileOp(Index, path) IN
    /\ SetIndex(r.idx)
    /\ last' = IF r.kind = "err" THEN [NoResult EXCEPT !.kind = "error"] ELSE NoResult
    /\ UNCHANGED <<callVars, fs, fsChanges, uploads, disk, unlistable, Collections, DefaultCollection>>

\* Index.UnstageFile
UnstageFile(path) ==
    /\ SetIndex(UnstageFileOp(Index, path))
    /\ last' = NoResult
    /\ UNCHANGED <<callVars, fs, fsChanges, uploads, disk, unlistable, Collections, DefaultCollection>>

\* Index.MarkSynced
MarkSynced(path, remoteURL) ==
    /\ path \in DOMAIN Files => uploads < MaxUploads
    /\ uploads' = IF path \in DOMAIN Files THEN uploads + 1 ELSE uploads
    /\ SetIndex(MarkSyncedOp(Index, path, remoteURL))
    /\ last' = NoResult
    /\ UNCHANGED <<callVars, fs, fsChanges, disk, unlistable, Collections, DefaultCollection>>

\* Index.StageDirectory
StageDirectory(dirPath) ==
    LET r == StageDirectoryOp(Index, dirPath) IN
    /\ SetIndex(r.idx)
    /\ last' = IF r.err THEN [NoResult EXCEPT !.kind = "walk error"] ELSE NoResult
    /\ UNCHANGED <<callVars, fs, fsChanges, uploads, disk, unlistable, Collections, DefaultCollection>>

\* Index.ScanWorkingDirectory
ScanWorkingDirectory ==
    \E q \in ScanOrders(Index) :
        LET r == ScanOp(Index, q) IN
        /\ SetIndex(r.idx)
        /\ last' = [NoResult EXCEPT !.kind = "scan",
                                    !.newFiles = r.newFiles,
                                    !.modifiedFiles = r.modifiedFiles,
                                    !.deletedFiles = r.deletedFiles]
        /\ UNCHANGED <<callVars, fs, fsChanges, uploads, disk, unlistable, Collections, DefaultCollection>>

\* ------------------------------------------------------------ environment
\* A program outside the Index writes or replaces a file.
WriteFile(p, d) ==
    /\ fsChanges < MaxFsChanges
    /\ fsChanges' = fsChanges + 1
    /\ fs' = [fs EXCEPT ![p] = NewContent(d)]
    /\ last' = NoResult
    /\ UNCHANGED <<callVars, uploads, Files, Synced, Deleted, disk, unlistable, Collections, DefaultCollection>>

\* A file is removed from the working tree.
RemoveFile(p) ==
    /\ fsChanges < MaxFsChanges
    /\ fs[p].exists
    /\ fsChanges' = fsChanges + 1
    /\ fs' = [fs EXCEPT ![p] = NoFile]
    /\ last' = NoResult
    /\ UNCHANGED <<callVars, uploads, Files, Synced, Deleted, disk, unlistable, Collections, DefaultCollection>>

\* A file's permissions change so that it can no longer (or can again) be opened.
Chmod(p) ==
    /\ fsChanges < MaxFsChanges
    /\ fs[p].exists
    /\ fsChanges' = fsChanges + 1
    /\ fs' = [fs EXCEPT ![p].readable = ~fs[p].readable]
    /\ last' = NoResult
    /\ UNCHANGED <<callVars, uploads, Files, Synced, Deleted, disk, unlistable, Collections, DefaultCollection>>

\* The root directory's permissions change so that its entries can no longer
\* (or can again) be read; files in it can still be opened by name.
ChmodDir(d) ==
    /\ fsChanges < MaxFsChanges
    /\ fsChanges' = fsChanges + 1
    /\ unlistable' = IF d \in unlistable THEN unlistable \ {d} ELSE unlistable \cup {d}
    /\ last' = NoResult
    /\ UNCHANGED <<callVars, fs, uploads, Files, Synced, Deleted, disk, Collections, DefaultCollection>>

\* The environment's step.
Environment ==
    \/ \E p \in EditedPaths, d \in {"x", "y"} : WriteFile(p, d)
    \/ \E p \in EditedPaths : RemoveFile(p)
    \/ \E p \in EditedPaths : Chmod(p)

\* ----------------------------------------------------- collection registry
\* Collection names a caller uses (Go map keys: compared byte by byte, so "c"
\* and "C" are two names), and the values of the other fields.
CollNames == {"c", "C", "d"}
CollectionTypeBucket == "bucket"
CollectionTypeTable == "table"
NoSchema == "nil"

\* The collections a caller can pass, valid or not.
CollectionInputs ==
    [Name : CollNames \cup {""},
     Type : {CollectionTypeBucket, CollectionTypeTable, "view"},
     Path : {"", "p", "q"},
     Schema : {NoSchema, "cols"}]

\* Validate without the test that a bucket carries no schema.
Validate_AllowsBucketSchema(c) ==
    /\ c.Name # ""
    /\ c.Type = CollectionTypeBucket \/ c.Type = CollectionTypeTable
    /\ c.Path # ""
    /\ ~(c.Type = CollectionTypeTable /\ c.Schema = NoSchema)

\* Collection.Validate returns nil.
Validate(c) ==
    /\ c.Name # ""
    /\ c.Type = CollectionTypeBucket \/ c.Type = CollectionTypeTable
    /\ c.Path # ""
    /\ ~(c.Type = CollectionTypeTable /\ c.Schema = NoSchema)
    /\ ~(c.Type = CollectionTypeBucket /\ c.Schema # NoSchema)

\* The errors of the registry operations; NoError is the nil error.
NoError == "none"
ErrInvalid == "invalid collection"
ErrCollectionExists == "collection already exists"
ErrCollectionNotFound == "collection not found"
ErrNoDefaultCollection == "no default collection set"

\* The registry part of the Index.
Registry == [Collections |-> Collections, DefaultCollection |-> DefaultCollection]

\* The registry part of the Index becomes reg.
SetRegistry(reg) ==
    /\ Collections' = reg.Collections
    /\ DefaultCollection' = reg.DefaultCollection

\* AddCollection that makes every added collection the default.
AddCollectionOp_AlwaysDefault(reg, collection) ==
    IF ~Validate(collection) THEN [err |-> ErrInvalid, reg |-> reg]
    ELSE IF collection.Name \in DOMAIN reg.Collections
    THEN [err |-> ErrCollectionExists, reg |-> reg]
    ELSE [err |-> NoError,
          reg |-> [Collections |-> Put(reg.Collections, collection.Name, collection),
                   DefaultCollection |-> collection.Name]]

\* AddCollection without the test for a registered name.
AddCollectionOp_Overwrites(reg, collection) ==
    IF ~Validate(collection) THEN [err |-> ErrInvalid, reg |-> reg]
    ELSE LET colls == Put(reg.Collections, collection.Name, collection) IN
         [err |-> NoError,
          reg |-> [Collections |-> colls,
                   DefaultCollection |-> IF Cardinality(DOMAIN colls) = 1
                                         THEN collection.Name
                                         ELSE reg.DefaultCollection]]

\* The effect of Index.AddCollection on reg, and the error it returns.
AddCollectionOp(reg, collection) ==
    IF ~Validate(collection) THEN [err |-> ErrInvalid, reg |-> reg]
    ELSE IF collection.Name \in DOMAIN reg.Collections
    THEN [err |-> ErrCollectionExists, reg |-> reg]
    ELSE LET colls == Put(reg.Collections, collection.Name, collection) IN
         [err |-> NoError,
          reg |-> [Collections |-> colls,
                   DefaultCollection |-> IF Cardinality(DOMAIN colls) = 1
                                         THEN collection.Name
                                         ELSE reg.DefaultCollection]]

\* UpdateCollection that stores a collection whose name is not registered.
UpdateCollectionOp_Upserts(reg, collection) ==
    IF ~Validate(collection) THEN [err |-> ErrInvalid, reg |-> reg]
    ELSE [err |-> NoError,
          reg |-> [reg EXCEPT !.Collections = Put(@, collection.Name, collection)]]

\* The effect of Index.UpdateCollection on reg, and the error it returns.
UpdateCollectionOp(reg, collection) ==
    IF ~Validate(collection) THEN [err |-> ErrInvalid, reg |-> reg]
    ELSE IF collection.Name \notin DOMAIN reg.Collections
    THEN [err |-> ErrCollectionNotFound, reg |-> reg]
    ELSE [err |-> NoError,
          reg |-> [reg EXCEPT !.Collections = Put(@, collection.Name, collection)]]

\* The names the loop over the remaining collections can deliver first once
\* name is removed; the empty name when none remain.
NextDefaults(reg, name) ==
    IF DOMAIN reg.Collections \ {name} = {} THEN {""}
    ELSE DOMAIN reg.Collections \ {name}

\* RemoveCollection that leaves the default as it is.
RemoveCollectionOp_KeepsDefault(reg, name, next) ==
    IF name \notin DOMAIN reg.Collections
    THEN [err |-> ErrCollectionNotFound, reg |-> reg]
    ELSE [err |-> NoError,
          reg |-> [reg EXCEPT !.Collections = Remove(@, name)]]

\* RemoveCollection that picks a new default whichever collection is removed.
RemoveCollectionOp_AlwaysRepicks(reg, name, next) ==
    IF name \notin DOMAIN reg.Collections
    THEN [err |-> ErrCollectionNotFound, reg |-> reg]
    ELSE [err |-> NoError,
          reg |-> [Collections |-> Remove(reg.Collections, name),
                   DefaultCollection |-> next]]

\* The effect of Index.RemoveCollection on reg when the loop over the
\* remaining collections delivers next first, and the error it returns.
RemoveCollectionOp(reg, name, next) ==
    IF name \notin DOMAIN reg.Collections
    THEN [err |-> ErrCollectionNotFound, reg |-> reg]
    ELSE [err |-> NoError,
          reg |-> [Collections |-> Remove(reg.Collections, name),
                   DefaultCollection |-> IF reg.DefaultCollection = name
                                         THEN next
                                         ELSE reg.DefaultCollection]]

\* Index.GetCollection: the error and, without error, the collection.
GetCollectionOp(reg, name) ==
    IF name \notin DOMAIN reg.Collections
    THEN [err |-> ErrCollectionNotFound]
    ELSE [err |-> NoError, collection |-> reg.Collections[name]]

\* Index.GetDefaultCollection: the error and, without error, the collection.
GetDefaultCollectionOp(reg) ==
    IF reg.DefaultCollection = "" THEN [err |-> ErrNoDefaultCollection]
    ELSE IF reg.DefaultCollection \notin DOMAIN reg.Collections
    THEN [err |-> ErrCollectionNotFound]
    ELSE [err |-> NoError, collection |-> reg.Collections[reg.DefaultCollection]]

\* The effect of Index.SetDefaultCollection on reg, and the error it returns.
SetDefaultCollectionOp(reg, name) ==
    IF name \notin DOMAIN reg.Collections
    THEN [err |-> ErrCollectionNotFound, reg |-> reg]
    ELSE [err |-> NoError, reg |-> [reg EXCEPT !.DefaultCollection = name]]

\* A registry call ends: the registry is reg and the call returned err.
EndRegistryCall(reg, err) ==
    /\ SetRegistry(reg)
    /\ last' = [NoResult EXCEPT !.kind = err]
    /\ UNCHANGED <<callVars, fs, fsChanges, uploads, Files, Synced, Deleted, disk, unlistable>>

\* Index.AddCollection
AddCollection(collection) ==
    LET r == AddCollectionOp(Registry, collection) IN EndRegistryCall(r.reg, r.err)

\* Index.UpdateCollection
UpdateCollection(collection) ==
    LET r == UpdateCollectionOp(Registry, collection) IN EndRegistryCall(r.reg, r.err)

\* Index.RemoveCollection
RemoveCollection(name) ==
    \E next \in NextDefaults(Registry, name) :
        LET r == RemoveCollectionOp(Registry, name, next) IN
        EndRegistryCall(r.reg, r.err)

\* Index.GetCollection
GetCollection(name) ==
    EndRegistryCall(Registry, GetCollectionOp(Registry, name).err)

\* Index.GetDefaultCollection
GetDefaultCollection ==
    EndRegistryCall(Registry, GetDefaultCollectionOp(Registry).err)

\* Index.SetDefaultCollection
SetDefaultCollection(name) ==
    LET r == SetDefaultCollectionOp(Registry, name) IN EndRegistryCall(r.reg, r.err)

\* --------------------------------------------------------- the index file
\* A name that is not valid UTF-8 (the bytes c, a, f, 0xE9: "café" in
\* Latin-1), which a file name or a command-line argument can be, and what
\* json.Marshal writes for it: invalid bytes become U+FFFD.
RawName == "caf\\xE9"

\* json.Marshal of a string: coerced to valid UTF-8.
CoerceUTF8(str) == IF str = RawName THEN "caf\\uFFFD" ELSE str

\* json.Marshal of a map with string keys: the keys are coerced as well.
EncodeKeys(m) == {CoerceUTF8(k) : k \in DOMAIN m}
KeyOf(m, j) == CHOOSE k \in DOMAIN m : CoerceUTF8(k) = j

\* json.Marshal of a File: remote_url carries omitempty.
EncodeFile(f) ==
    [k \in {"path", "size", "hash", "last_modified", "status"}
           \cup (IF f.RemoteURL # "" THEN {"remote_url"} ELSE {}) |->
        CASE k = "path"          -> CoerceUTF8(f.Path)
          [] k = "size"          -> f.Size
          [] k = "hash"          -> f.Hash
          [] k = "last_modified" -> f.LastModified
          [] k = "status"        -> f.Status
          [] k = "remote_url"    -> f.RemoteURL]

\* json.Unmarshal into a File: an absent key leaves the zero value.
DecodeFile(j) ==
    [Path         |-> j["path"],
     Size         |-> j["size"],
     Hash         |-> j["hash"],
     LastModified |-> j["last_modified"],
     Status       |-> j["status"],
     RemoteURL    |-> IF "remote_url" \in DOMAIN j THEN j["remote_url"] ELSE ""]

EncodeFileMap(m) == [j \in EncodeKeys(m) |-> EncodeFile(m[KeyOf(m, j)])]
DecodeFileMap(j) == [p \in DOMAIN j |-> DecodeFile(j[p])]

\* json.Marshal of a Collection: schema carries omitempty.
EncodeCollection(c) ==
    [k \in {"name", "type", "path"}
           \cup (IF c.Schema # NoSchema THEN {"schema"} ELSE {}) |->
        CASE k = "name"   -> CoerceUTF8(c.Name)
          [] k = "type"   -> c.Type
          [] k = "path"   -> c.Path
          [] k = "schema" -> c.Schema]

\* json.Unmarshal into a Collection: an absent schema leaves the nil pointer.
DecodeCollection(j) ==
    [Name   |-> j["name"],
     Type   |-> j["type"],
     Path   |-> j["path"],
     Schema |-> IF "schema" \in DOMAIN j THEN j["schema"] ELSE NoSchema]


\* json.MarshalIndent of the Index: deleted, synced, collections and
\* default_collection carry omitempty.
EncodeIndex(idx) ==
    [k \in {"files", "repo_root"}
           \cup (IF DOMAIN idx.Deleted # {} THEN {"deleted"} ELSE {})
           \cup (IF DOMAIN idx.Synced # {} THEN {"synced"} ELSE {})
           \cup (IF DOMAIN idx.Collections # {} THEN {"collections"} ELSE {})
           \cup (IF idx.DefaultCollection # "" THEN {"default_collection"} ELSE {}) |->
        CASE k = "files"     -> EncodeFileMap(idx.Files)
          [] k = "deleted"   -> EncodeFileMap(idx.Deleted)
          [] k = "synced"    -> EncodeFileMap(idx.Synced)
          [] k = "collections" ->
                [j \in EncodeKeys(idx.Collections) |->
                    EncodeCollection(idx.Collections[KeyOf(idx.Collections, j)])]
          [] k = "default_collection" -> CoerceUTF8(idx.DefaultCollection)
          [] k = "repo_root" -> Root]

\* What Index.Save leaves in the index file.
SaveOp(idx) == [exists |-> TRUE, doc |-> EncodeIndex(idx)]

\* LoadIndex returns the error of json.Unmarshal: the text is not a document.
LoadError(file) == file.exists /\ "doc" \notin DOMAIN file

\* LoadIndex: a fresh Index when the file is absent, empty maps for absent keys.
LoadIndex(file) ==
    IF ~file.exists THEN NewIndex
    ELSE [Files   |-> IF "files" \in DOMAIN file.doc
                      THEN DecodeFileMap(file.doc["files"]) ELSE EmptyMap,
          Synced  |-> IF "synced" \in DOMAIN file.doc
                      THEN DecodeFileMap(file.doc["synced"]) ELSE EmptyMap,
          Deleted |-> IF "deleted" \in DOMAIN file.doc
                      THEN DecodeFileMap(file.doc["deleted"]) ELSE EmptyMap,
          Collections |-> IF "collections" \in DOMAIN file.doc
                          THEN [n \in DOMAIN file.doc["collections"] |->
                                   DecodeCollection(file.doc["collections"][n])]
                          ELSE EmptyMap,
          DefaultCollection |-> IF "default_collection" \in DOMAIN file.doc
                                THEN file.doc["default_collection"] ELSE ""]

\* Index.Save writes the whole document.
Save ==
    /\ disk' = SaveOp(Index)
    /\ last' = [NoResult EXCEPT !.kind = "saved"]
    /\ UNCHANGED <<callVars, fs, fsChanges, uploads, Files, Synced, Deleted,
                   unlistable, Collections, DefaultCollection>>

\* Index.Save whose os.WriteFile returns an error part way, or whose process
\* is killed during the write: the file was truncated when it was opened.
SaveInterrupted ==
    /\ disk' = [exists |-> TRUE, truncated |-> TRUE]
    /\ last' = [NoResult EXCEPT !.kind = "interrupted"]
    /\ UNCHANGED <<callVars, fs, fsChanges, uploads, Files, Synced, Deleted,
                   unlistable, Collections, DefaultCollection>>

\* A program starts and calls LoadIndex: the Index it works on is the one
\* LoadIndex returns, unless LoadIndex returns an error.
Load ==
    /\ IF LoadError(disk)
       THEN /\ last' = [NoResult EXCEPT !.kind = "load error"]
            /\ UNCHANGED <<Files, Synced, Deleted, Collections, DefaultCollection>>
       ELSE /\ \E idx \in {LoadIndex(disk)} : SetIndex(idx) /\ SetRegistry(idx)
            /\ last' = [NoResult EXCEPT !.kind = "loaded"]
    /\ UNCHANGED <<callVars, fs, fsChanges, uploads, disk, unlistable>>

\* --------------------------------------------------------------- commands
\* What a command leaves behind: "saved" when it reached Index.Save, "failed"
\* when it returned before ("stage failed" and "push failed" when a push did so
\* after changing the Index), "response" when a push applied a server response.
CmdResult(kind) == [NoResult EXCEPT !.kind = kind]

\* A command ends before Index.Save: the file stays, and the Index the command
\* built is gone with its process, so the Index is again what the file holds.
EndWithoutSave(result) ==
    /\ \E idx \in {LoadIndex(disk)} : SetIndex(idx) /\ SetRegistry(idx)
    /\ last' = result
    /\ UNCHANGED <<callVars, fs, fsChanges, uploads, disk, unlistable>>

\* A command ends with Index.Save of idx.
EndWithSave(idx, result) ==
    /\ SetIndex(idx)
    /\ SetRegistry(idx)
    /\ disk' = SaveOp(idx)
    /\ last' = result
    /\ UNCHANGED <<callVars, fs, fsChanges, uploads, unlistable>>

\* The command finds no repository, or an index file it cannot load.
NoRepository == ~disk.exists \/ LoadError(disk)

\* hhx init: a new Index with the default collection, saved.
InitCmd ==
    IF disk.exists THEN EndWithoutSave(CmdResult("failed"))
    ELSE LET r == AddCollectionOp(NewIndex,
                      [Name |-> "default", Type |-> CollectionTypeBucket,
                       Path |-> "default", Schema |-> NoSchema]) IN
         IF r.err # NoError THEN EndWithoutSave(CmdResult("failed"))
         ELSE EndWithSave([NewIndex EXCEPT !.Collections = r.reg.Collections,
                                           !.DefaultCollection = r.reg.DefaultCollection],
                          CmdResult("saved"))

\* hhx stage <path>
StageCmd(path) ==
    LET idx0 == LoadIndex(disk) IN
    IF NoRepository THEN EndWithoutSave(CmdResult("failed"))
    ELSE IF path \in FilePaths /\ ~fs[path].exists
    THEN EndWithoutSave(CmdResult("failed"))
    ELSE IF path \in Dirs
    THEN LET r == StageDirectoryOp(idx0, path) IN
         IF r.err THEN EndWithoutSave(CmdResult("failed"))
         ELSE EndWithSave(r.idx, CmdResult("saved"))
    ELSE LET r == StageFileOp(idx0, path) IN
         IF r.kind = "err" THEN EndWithoutSave(CmdResult("failed"))
         ELSE EndWithSave(r.idx, CmdResult("saved"))

\* hhx unstage <file>
UnstageCmd(path) ==
    IF NoRepository THEN EndWithoutSave(CmdResult("failed"))
    ELSE EndWithSave(UnstageFileOp(LoadIndex(disk), path), CmdResult("saved"))

\* hhx status: scans, prints, and does not save.
StatusCmd ==
    LET idx0 == LoadIndex(disk) IN
    IF NoRepository THEN EndWithoutSave(CmdResult("failed"))
    ELSE
    \E q \in ScanOrders(idx0) :
        LET r == ScanOp(idx0, q) IN
        EndWithoutSave([NoResult EXCEPT !.kind = "scan",
                                               !.newFiles = r.newFiles,
                                               !.modifiedFiles = r.modifiedFiles,
                                               !.deletedFiles = r.deletedFiles])

\* 'push all' stages the scanned files in turn and stops at the first error.
RECURSIVE StageAll(_, _, _)
StageAll(idx, files, i) ==
    IF i > Len(files) THEN [err |-> FALSE, idx |-> idx]
    ELSE LET r == StageFileOp(idx, files[i].Path) IN
         IF r.kind = "err" THEN [err |-> TRUE, idx |-> r.idx]
         ELSE StageAll(r.idx, files, i + 1)

\* The loop over resp.UploadedFiles that stops after the first entry.
RECURSIVE ApplyUploaded_FirstOnly(_, _, _)
ApplyUploaded_FirstOnly(idx, uploaded, i) ==
    IF i > Len(uploaded) \/ i > 1 THEN idx
    ELSE ApplyUploaded_FirstOnly(
             MarkSyncedOp(idx, uploaded[i].Path, uploaded[i].RemoteURL),
             uploaded, i + 1)

\* The loop over resp.UploadedFiles: MarkSynced for each entry in turn.
RECURSIVE ApplyUploaded(_, _, _)
ApplyUploaded(idx, uploaded, i) ==
    IF i > Len(uploaded) THEN idx
    ELSE ApplyUploaded(MarkSyncedOp(idx, uploaded[i].Path, uploaded[i].RemoteURL),
                       uploaded, i + 1)

\* The responses the server can give for the pushed paths: each path is in
\* uploaded_files (with some remote_url), in errors, or in neither.
Responses(pushed) ==
    UNION {{[uploaded |-> [i \in DOMAIN q |-> [Path |-> q[i], RemoteURL |-> url[q[i]]]],
             errors   |-> F] :
               q \in Orders(U), url \in [U -> URLs], F \in SUBSET (pushed \ U)} :
           U \in {V \in SUBSET pushed : uploads + Cardinality(V) <= MaxUploads}}

\* The push command returning after it changed the Index in memory to idx:
\* it saves nothing (mutated: it saves idx).
EndPushFailed_Saves(idx, result) == EndWithSave(idx, result)

\* The push command returns before Index.Save once it has changed the Index
\* in memory to idx (scan, staging): the changes are gone with its process.
EndPushFailed(idx, result) == EndWithoutSave(result)

\* 'push all' when another program removes file p, which the scan reported,
\* before the staging loop reaches it: StageFile returns the error of
\* NewFileFromPath and the command returns.
PushAllStageFails(idx0, p) ==
    /\ fsChanges < MaxFsChanges
    /\ \E q \in ScanOrders(idx0) :
       \E sc \in {ScanOp(idx0, q)} :
          /\ p \in PathsOf(sc.newFiles \o sc.modifiedFiles)
          /\ \E idx \in {LoadIndex(disk)} : SetIndex(idx) /\ SetRegistry(idx)
    /\ fs' = [fs EXCEPT ![p] = NoFile]
    /\ fsChanges' = fsChanges + 1
    /\ last' = CmdResult("stage failed")
    /\ UNCHANGED <<callVars, uploads, disk, unlistable>>

\* hhx push [all], pushing to the default collection.
PushCmd(all) ==
    \E idx0 \in {LoadIndex(disk)} :
    IF NoRepository \/ GetDefaultCollectionOp(idx0).err # NoError
    THEN EndWithoutSave(CmdResult("failed"))
    ELSE
    \/ all /\ \E p \in EditedPaths : PushAllStageFails(idx0, p)
    \/ \E q \in (IF all THEN ScanOrders(idx0) ELSE {<<>>}) :
        \E sc \in {IF all THEN ScanOp(idx0, q)
                   ELSE [idx |-> idx0, newFiles |-> <<>>, modifiedFiles |-> <<>>]} :
        \E st \in {StageAll(sc.idx, sc.newFiles \o sc.modifiedFiles, 1)} :
        \E pushed \in {DOMAIN st.idx.Files} :
        IF st.err
        THEN EndPushFailed(st.idx, CmdResult("stage failed"))
        ELSE IF pushed = {}
        THEN EndWithoutSave(CmdResult("failed"))
        ELSE IF ~(\A p \in pushed : fs[p].exists /\ fs[p].readable)
        THEN EndPushFailed(st.idx, [CmdResult("push failed") EXCEPT !.pushed = pushed])
        ELSE \/ EndPushFailed(st.idx, [CmdResult("push failed") EXCEPT !.pushed = pushed])
             \/ \E resp \in Responses(pushed) :
                   \E idx1 \in {ApplyUploaded(st.idx, resp.uploaded, 1)} :
                   /\ SetIndex(idx1)
                   /\ SetRegistry(idx1)
                   /\ disk' = SaveOp(idx1)
                   /\ uploads' = uploads + Len(resp.uploaded)
                   /\ last' = [NoResult EXCEPT !.kind = "response",
                                               !.pushed = pushed,
                                               !.uploaded = resp.uploaded,
                                               !.errors = resp.errors]
                   /\ UNCHANGED <<callVars, fs, fsChanges, unlistable>>

\* ------------------------------------------------------------ goroutines
\* The goroutines that call into one Index, and the calls they make in all.
NumProcs == 2
MaxCalls == 3
Procs == 1..NumProcs

\* sync.RWMutex with no holder; writer 0 is no goroutine.
Unlocked == [writer |-> 0, readers |-> {}]

\* The paths and collections the goroutines' calls name.
CallPaths == {"a.txt", "b.txt"}
GoodCollection ==
    [Name |-> "c", Type |-> CollectionTypeBucket, Path |-> "p", Schema |-> NoSchema]

\* The methods that take the write lock (idx.mu.Lock); the others take the
\* read lock (idx.mu.RLock).
IsWriter(call) ==
    call.op \in {"StageFile", "UnstageFile", "MarkSynced", "StageDirectory",
                 "ScanWorkingDirectory", "AddCollection", "RemoveCollection"}

\* The calls a goroutine can make.
ProcCalls ==
    {[op |-> "StageFile", path |-> p] : p \in CallPaths}
    \cup {[op |-> "MarkSynced", path |-> p, remoteURL |-> "u1"] : p \in CallPaths}
    \cup {[op |-> "UnstageFile", path |-> "a.txt"],
          [op |-> "StageDirectory", path |-> Root],
          [op |-> "AddCollection", collection |-> GoodCollection],
          [op |-> "AddCollection", collection |-> [GoodCollection EXCEPT !.Path = ""]],
          [op |-> "RemoveCollection", name |-> "c"]}
    \cup {[op |-> o] : o \in {"GetStagedFiles", "GetAllFiles", "Save",
                               "GetDefaultCollection", "ScanWorkingDirectory"}}

\* Goroutine t is between taking the lock and releasing it.
Inside(t) == procs[t].pc \notin {"idle", "lock", "done"}

\* Lock that returns without waiting for the holders of the lock.
LockFree_NoExclusion(m) == TRUE

\* Lock returns once nobody holds the mutex.
LockFree(m) == m.writer = 0 /\ m.readers = {}

\* RLock that returns while a writer holds the mutex.
RLockFree_IgnoresWriter(m, writerBlocked) == TRUE

\* RLock returns once no writer holds the mutex or is blocked in Lock.
RLockFree(m, writerBlocked) == m.writer = 0 /\ ~writerBlocked

\* A return that skips the unlock when the method returns an error.
Released_NotOnError(m, t, p) ==
    IF p.local.kind = "err" THEN m
    ELSE IF IsWriter(p.call) THEN [m EXCEPT !.writer = 0]
    ELSE [m EXCEPT !.readers = @ \ {t}]

\* The mutex after the deferred Unlock or RUnlock of goroutine t, whose call
\* state is p, has run.
Released(m, t, p) ==
    IF IsWriter(p.call) THEN [m EXCEPT !.writer = 0]
    ELSE [m EXCEPT !.readers = @ \ {t}]

\* The values a map can have after t wrote it from old to new: a write that
\* races can be lost.
Written(t, old, new) == IF (\E u \in Procs \ {t} : Inside(u)) THEN {old, new} ELSE {new}

\* Goroutine t is in a call of op at position pc.
At(t, op, pc) == procs[t].call.op = op /\ procs[t].pc = pc

\* Goroutine t moves to position pc with locals local.
Goto(t, pc, local) == procs' = [procs EXCEPT ![t].pc = pc, ![t].local = local]

\* What no step of a call changes.
outside == <<fs, fsChanges, uploads, last, unlistable, held, issued>>

\* A goroutine calls a method of the Index and reaches its Lock or RLock.
Call(t, c) ==
    /\ procs[t].pc \in {"idle", "done"}
    /\ issued < MaxCalls
    /\ issued' = issued + 1
    /\ procs' = [procs EXCEPT ![t] = [pc |-> "lock", call |-> c,
                                      local |-> [kind |-> "none"]]]
    /\ UNCHANGED <<fs, fsChanges, uploads, last, unlistable, held, mu,
                   Files, Synced, Deleted, disk, Collections, DefaultCollection>>

\* idx.mu.Lock() returns.
Lock(t) ==
    /\ procs[t].pc = "lock"
    /\ IsWriter(procs[t].call)
    /\ LockFree(mu)
    /\ mu' = [mu EXCEPT !.writer = t]
    /\ Goto(t, "body", procs[t].local)
    /\ UNCHANGED <<outside, Files, Synced, Deleted, disk, Collections, DefaultCollection>>

\* idx.mu.RLock() returns.
RLock(t) ==
    /\ procs[t].pc = "lock"
    /\ ~IsWriter(procs[t].call)
    /\ RLockFree(mu, \E u \in Procs :
                         procs[u].pc = "lock" /\ IsWriter(procs[u].call))
    /\ mu' = [mu EXCEPT !.readers = @ \cup {t}]
    /\ Goto(t, "body", procs[t].local)
    /\ UNCHANGED <<outside, Files, Synced, Deleted, disk, Collections, DefaultCollection>>

\* The method returns: the deferred Unlock or RUnlock runs.
Return(t) ==
    /\ procs[t].pc = "ret"
    /\ mu' = Released(mu, t, procs[t])
    /\ Goto(t, "done", procs[t].local)
    /\ UNCHANGED <<outside, Files, Synced, Deleted, disk, Collections, DefaultCollection>>

\* StageFile: NewFileFromPath and the classification against idx.Synced.
StageFileRead(t) ==
    /\ At(t, "StageFile", "body")
    /\ LET r == NewFileFromPath(procs[t].call.path) IN
       IF r.kind = "file"
       THEN Goto(t, "store", [kind |-> "file", file |-> Classify(Synced, r.file)])
       ELSE Goto(t, "ret", [kind |-> r.kind])
    /\ UNCHANGED <<outside, mu, Files, Synced, Deleted, disk, Collections, DefaultCollection>>

\* StageFile: idx.Files[file.Path] = file
StageFileStore(t) ==
    /\ At(t, "StageFile", "store")
    /\ LET file == procs[t].local.file IN
       Files' \in Written(t, Files, Put(Files, file.Path, file))
    /\ Goto(t, "undelete", procs[t].local)
    /\ UNCHANGED <<outside, mu, Synced, Deleted, disk, Collections, DefaultCollection>>

\* StageFile: delete(idx.Deleted, file.Path)
StageFileUndelete(t) ==
    /\ At(t, "StageFile", "undelete")
    /\ Deleted' \in Written(t, Deleted, Remove(Deleted, procs[t].local.file.Path))
    /\ Goto(t, "ret", [kind |-> "file"])
    /\ UNCHANGED <<outside, mu, Files, Synced, disk, Collections, DefaultCollection>>

\* UnstageFile: delete(idx.Files, relPath)
UnstageFileDelete(t) ==
    /\ At(t, "UnstageFile", "body")
    /\ Files' \in Written(t, Files, Remove(Files, procs[t].call.path))
    /\ Goto(t, "ret", [kind |-> "ok"])
    /\ UNCHANGED <<outside, mu, Synced, Deleted, disk, Collections, DefaultCollection>>

\* MarkSynced: the lookup in idx.Files and, for a staged path, the two
\* assignments to the record found, which change it while it is in Files.
MarkSyncedLookup(t) ==
    /\ At(t, "MarkSynced", "body")
    /\ LET path == procs[t].call.path IN
       IF path \in DOMAIN Files
       THEN LET file == [Files[path] EXCEPT !.Status = StatusSynced,
                                            !.RemoteURL = procs[t].call.remoteURL] IN
            /\ Files' = [Files EXCEPT ![path] = file]
            /\ Goto(t, "link", [kind |-> "file", file |-> file])
       ELSE /\ Files' = Files
            /\ Goto(t, "ret", [kind |-> "ok"])
    /\ UNCHANGED <<outside, mu, Synced, Deleted, disk, Collections, DefaultCollection>>

\* MarkSynced: idx.Synced[path] = file
MarkSyncedLink(t) ==
    /\ At(t, "MarkSynced", "link")
    /\ Synced' \in Written(t, Synced, Put(Synced, procs[t].call.path, procs[t].local.file))
    /\ Goto(t, "unlink", procs[t].local)
    /\ UNCHANGED <<outside, mu, Files, Deleted, disk, Collections, DefaultCollection>>

\* MarkSynced: delete(idx.Files, path)
MarkSyncedUnlink(t) ==
    /\ At(t, "MarkSynced", "unlink")
    /\ Files' \in Written(t, Files, Remove(Files, procs[t].call.path))
    /\ Goto(t, "ret", [kind |-> "ok"])
    /\ UNCHANGED <<outside, mu, Synced, Deleted, disk, Collections, DefaultCollection>>

\* StageDirectory: filepath.Walk is called.
StageDirectoryStart(t) ==
    /\ At(t, "StageDirectory", "body")
    /\ Goto(t, "walk", [kind |-> "walk", i |-> 1, skipped |-> {}])
    /\ UNCHANGED <<outside, mu, Files, Synced, Deleted, disk, Collections, DefaultCollection>>

\* StageDirectory: one callback of the walk, which stores the file it stages
\* and ends the walk when it returns an error.
StageDirectoryVisit(t) ==
    /\ At(t, "StageDirectory", "walk")
    /\ LET l == procs[t].local
           entries == WalkEntries(procs[t].call.path) IN
       \E acc \in {StageDirStep(Synced, [skipped |-> l.skipped, files |-> Files,
                                         err |-> FALSE], entries[l.i])} :
          /\ Files' = acc.files
          /\ IF acc.err THEN Goto(t, "ret", [kind |-> "err"])
             ELSE IF l.i = Len(entries) THEN Goto(t, "ret", [kind |-> "ok"])
             ELSE Goto(t, "walk", [l EXCEPT !.i = @ + 1, !.skipped = acc.skipped])
    /\ UNCHANGED <<outside, mu, Synced, Deleted, disk, Collections, DefaultCollection>>

\* ScanWorkingDirectory: the seen map, the walk, and the order in which the
\* range over the seen map will deliver the paths not seen.
ScanWalkTree(t) ==
    /\ At(t, "ScanWorkingDirectory", "body")
    /\ \E q \in ScanOrders(Index), w \in {ScanTree(Index)} :
          Goto(t, IF q = <<>> THEN "ret" ELSE "untrack",
               [kind |-> "scan", newFiles |-> w.newFiles,
                modifiedFiles |-> w.modifiedFiles, deletedFiles |-> <<>>, q |-> q])
    /\ UNCHANGED <<outside, mu, Files, Synced, Deleted, disk, Collections, DefaultCollection>>

\* ScanWorkingDirectory: file := idx.Synced[path]; file.Status = StatusUntracked;
\* deletedFiles = append(deletedFiles, file). A path another goroutine has
\* removed meanwhile yields a nil record, and the assignment panics.
ScanUntrack(t) ==
    /\ At(t, "ScanWorkingDirectory", "untrack")
    /\ LET l == procs[t].local
           path == Head(l.q) IN
       IF path \in DOMAIN Synced
       THEN LET file == [Synced[path] EXCEPT !.Status = StatusUntracked] IN
            /\ Synced' = [Synced EXCEPT ![path] = file]
            /\ Goto(t, "relink", [l EXCEPT !.deletedFiles = Append(@, file)])
       ELSE /\ Synced' = Synced
            /\ Goto(t, "ret", [kind |-> "panic"])
    /\ UNCHANGED <<outside, mu, Files, Deleted, disk, Collections, DefaultCollection>>

\* ScanWorkingDirectory: idx.Deleted[path] = file
ScanRelink(t) ==
    /\ At(t, "ScanWorkingDirectory", "relink")
    /\ LET l == procs[t].local IN
       Deleted' \in Written(t, Deleted, Put(Deleted, Head(l.q), l.deletedFiles[Len(l.deletedFiles)]))
    /\ Goto(t, "drop", procs[t].local)
    /\ UNCHANGED <<outside, mu, Files, Synced, disk, Collections, DefaultCollection>>

\* ScanWorkingDirectory: delete(idx.Synced, path), and the next round of the loop.
ScanDrop(t) ==
    /\ At(t, "ScanWorkingDirectory", "drop")
    /\ LET l == procs[t].local IN
       /\ Synced' \in Written(t, Synced, Remove(Synced, Head(l.q)))
       /\ Goto(t, IF Tail(l.q) = <<>> THEN "ret" ELSE "untrack", [l EXCEPT !.q = Tail(@)])
    /\ UNCHANGED <<outside, mu, Files, Deleted, disk, Collections, DefaultCollection>>

\* The records of a population, as a slice holds them.
RecordsOf(m) == {m[p] : p \in DOMAIN m}

\* GetStagedFiles: the loop over idx.Files.
GetStagedFilesCopy(t) ==
    /\ At(t, "GetStagedFiles", "body")
    /\ Goto(t, "ret", [kind |-> "slice", files |-> RecordsOf(Files)])
    /\ UNCHANGED <<outside, mu, Files, Synced, Deleted, disk, Collections, DefaultCollection>>

\* GetAllFiles: the loop over idx.Files.
GetAllFilesFiles(t) ==
    /\ At(t, "GetAllFiles", "body")
    /\ Goto(t, "synced", [kind |-> "slice", files |-> RecordsOf(Files),
                          synced |-> {}, deleted |-> {}])
    /\ UNCHANGED <<outside, mu, Files, Synced, Deleted, disk, Collections, DefaultCollection>>

\* GetAllFiles: the loop over idx.Synced.
GetAllFilesSynced(t) ==
    /\ At(t, "GetAllFiles", "synced")
    /\ Goto(t, "deleted", [procs[t].local EXCEPT !.synced = RecordsOf(Synced)])
    /\ UNCHANGED <<outside, mu, Files, Synced, Deleted, disk, Collections, DefaultCollection>>

\* GetAllFiles: the loop over idx.Deleted.
GetAllFilesDeleted(t) ==
    /\ At(t, "GetAllFiles", "deleted")
    /\ Goto(t, "ret", [procs[t].local EXCEPT !.deleted = RecordsOf(Deleted)])
    /\ UNCHANGED <<outside, mu, Files, Synced, Deleted, disk, Collections, DefaultCollection>>

\* Save: json.MarshalIndent(idx)
SaveMarshal(t) ==
    /\ At(t, "Save", "body")
    /\ Goto(t, "write", [kind |-> "data", doc |-> EncodeIndex(Index)])
    /\ UNCHANGED <<outside, mu, Files, Synced, Deleted, disk, Collections, DefaultCollection>>

\* Save: os.WriteFile(path, data, 0644)
SaveWrite(t) ==
    /\ At(t, "Save", "write")
    /\ disk' = [exists |-> TRUE, doc |-> procs[t].local.doc]
    /\ Goto(t, "ret", [kind |-> "ok"])
    /\ UNCHANGED <<outside, mu, Files, Synced, Deleted, Collections, DefaultCollection>>

\* AddCollection between Lock and return.
AddCollectionBody(t) ==
    /\ At(t, "AddCollection", "body")
    /\ LET r == AddCollectionOp(Registry, procs[t].call.collection) IN
       /\ SetRegistry(r.reg)
       /\ Goto(t, "ret", [kind |-> IF r.err = NoError THEN "ok" ELSE "err"])
    /\ UNCHANGED <<outside, mu, Files, Synced, Deleted, disk>>

\* RemoveCollection between Lock and return.
RemoveCollectionBody(t) ==
    /\ At(t, "RemoveCollection", "body")
    /\ \E next \in NextDefaults(Registry, procs[t].call.name) :
          LET r == RemoveCollectionOp(Registry, procs[t].call.name, next) IN
          /\ SetRegistry(r.reg)
          /\ Goto(t, "ret", [kind |-> IF r.err = NoError THEN "ok" ELSE "err"])
    /\ UNCHANGED <<outside, mu, Files, Synced, Deleted, disk>>

\* GetDefaultCollection between RLock and return.
GetDefaultCollectionBody(t) ==
    /\ At(t, "GetDefaultCollection", "body")
    /\ Goto(t, "ret", [kind |-> IF GetDefaultCollectionOp(Registry).err = NoError
                                THEN "ok" ELSE "err"])
    /\ UNCHANGED <<outside, mu, Files, Synced, Deleted, disk, Collections, DefaultCollection>>

\* A step of goroutine t inside a call: taking the lock, a step of the
\* method's body, or the return.
Step(t) ==
    \/ Lock(t) \/ RLock(t) \/ Return(t)
    \/ StageFileRead(t) \/ StageFileStore(t) \/ StageFileUndelete(t)
    \/ UnstageFileDelete(t)
    \/ MarkSyncedLookup(t) \/ MarkSyncedLink(t) \/ MarkSyncedUnlink(t)
    \/ StageDirectoryStart(t) \/ StageDirectoryVisit(t)
    \/ ScanWalkTree(t) \/ ScanUntrack(t) \/ ScanRelink(t) \/ ScanDrop(t)
    \/ GetStagedFilesCopy(t)
    \/ GetAllFilesFiles(t) \/ GetAllFilesSynced(t) \/ GetAllFilesDeleted(t)
    \/ SaveMarshal(t) \/ SaveWrite(t)
    \/ AddCollectionBody(t) \/ RemoveCollectionBody(t) \/ GetDefaultCollectionBody(t)

\* --------------------------------------------------------- specification
\* NewIndex: empty populations; every file of the tree exists and is readable;
\* no index file has been written.
Init ==
    /\ fs = [p \in FilePaths |-> NewContent("x")]
    /\ fsChanges = 0
    /\ uploads = 0
    /\ Files = EmptyMap
    /\ Synced = EmptyMap
    /\ Deleted = EmptyMap
    /\ disk = [exists |-> FALSE]
    /\ last = NoResult
    /\ unlistable = {}
    /\ Collections = EmptyMap
    /\ DefaultCollection = ""
    /\ mu = Unlocked
    /\ procs = [t \in Procs |->
                   [pc |-> "idle", call |-> [op |-> "none"], local |-> [kind |-> "none"]]]
    /\ issued = 0
    /\ held = {}

\* The calls a program makes on one Index, and the environment.
Next ==
    \/ \E p \in FilePaths \cup Dirs : StageFile(p)
    \/ \E p \in FilePaths : UnstageFile(p)
    \/ \E p \in FilePaths, u \in URLs : MarkSynced(p, u)
    \/ \E d \in Dirs : StageDirectory(d)
    \/ ScanWorkingDirectory
    \/ Environment
    \/ ChmodDir(Root)

Spec == Init /\ [][Next]_vars

\* The commands of the tool, each loading the Index from the index file, and
\* the environment.
NextCmd ==
    \/ InitCmd
    \/ \E p \in {"a.txt", "b.txt", Root} : StageCmd(p)
    \/ \E p \in {"a.txt", "b.txt"} : UnstageCmd(p)
    \/ StatusCmd
    \/ \E all \in BOOLEAN : PushCmd(all)
    \/ Environment

SpecCmd == Init /\ [][NextCmd]_vars

\* The calls a program makes on the collection registry of one Index.
NextColl ==
    \/ \E c \in CollectionInputs : AddCollection(c)
    \/ \E c \in CollectionInputs : UpdateCollection(c)
    \/ \E n \in CollNames : RemoveCollection(n)
    \/ \E n \in CollNames : GetCollection(n)
    \/ GetDefaultCollection
    \/ \E n \in CollNames : SetDefaultCollection(n)

SpecColl == Init /\ [][NextColl]_vars

\* The collections and names the calls of SpecStore use.
StoreCollections ==
    {[Name |-> "c", Type |-> CollectionTypeBucket, Path |-> "p", Schema |-> NoSchema],
     [Name |-> RawName, Type |-> CollectionTypeTable, Path |-> "q", Schema |-> "cols"]}

\* A program that works on one Index, saves it and loads it again.
NextStore ==
    \/ \E p \in EditedPaths : StageFile(p)
    \/ \E p \in EditedPaths, u \in URLs : MarkSynced(p, u)
    \/ ScanWorkingDirectory
    \/ \E p \in EditedPaths : RemoveFile(p)
    \/ \E c \in StoreCollections : AddCollection(c)
    \/ \E n \in {c.Name : c \in StoreCollections} : RemoveCollection(n)
    \/ Save
    \/ SaveInterrupted
    \/ Load

SpecStore == Init /\ [][NextStore]_vars

\* --------------------------------------------------------- returned slices
\* GetStagedFiles and GetAllFiles append the *File values of the maps to a new
\* slice: each element of the slice is the record the Index holds, not a copy.
\* An element of held is [path, at, rec]: the record rec of path, which is
\* also the record of population at of the Index ("none" once the Index has
\* replaced or dropped it).
SliceOf(m, at) == {[path |-> p, at |-> at, rec |-> m[p]] : p \in DOMAIN m}

\* The Index drops or replaces its record of path in the populations ats.
Detached(slice, ats, path) ==
    {IF h.path = path /\ h.at \in ats THEN [h EXCEPT !.at = "none"] ELSE h : h \in slice}

\* The Index changes its record of path in population from to rec and moves
\* it to population to, replacing the record to had.
Moved(slice, from, to, path, rec) ==
    {IF h.path = path /\ h.at = from THEN [h EXCEPT !.at = to, !.rec = rec]
     ELSE IF h.path = path /\ h.at = to THEN [h EXCEPT !.at = "none"]
     ELSE h : h \in slice}

\* A call with a slice in the caller's hands ends.
EndHeldCall(kind) ==
    /\ last' = [NoResult EXCEPT !.kind = kind]
    /\ UNCHANGED <<fs, fsChanges, disk, unlistable, Collections, DefaultCollection,
                   mu, procs, issued>>

\* The caller keeps the slice GetStagedFiles returns.
KeepStagedFiles ==
    /\ held' = SliceOf(Files, "Files")
    /\ UNCHANGED <<Files, Synced, Deleted, uploads>>
    /\ EndHeldCall("slice")

\* The caller keeps the slice GetAllFiles returns.
KeepAllFiles ==
    /\ held' = SliceOf(Files, "Files") \cup SliceOf(Synced, "Synced")
                  \cup SliceOf(Deleted, "Deleted")
    /\ UNCHANGED <<Files, Synced, Deleted, uploads>>
    /\ EndHeldCall("slice")

\* The caller assigns to a field of a record of the slice.
EditHeldRecord(h, url) ==
    /\ h \in held
    /\ h.rec.RemoteURL # url
    /\ LET rec == [h.rec EXCEPT !.RemoteURL = url] IN
       /\ held' = (held \ {h}) \cup {[h EXCEPT !.rec = rec]}
       /\ Files' = IF h.at = "Files" THEN [Files EXCEPT ![h.path] = rec] ELSE Files
       /\ Synced' = IF h.at = "Synced" THEN [Synced EXCEPT ![h.path] = rec] ELSE Synced
       /\ Deleted' = IF h.at = "Deleted" THEN [Deleted EXCEPT ![h.path] = rec] ELSE Deleted
    /\ UNCHANGED uploads
    /\ EndHeldCall("edit")

\* The caller removes an element from the slice.
DropHeldRecord(h) ==
    /\ h \in held
    /\ held' = held \ {h}
    /\ UNCHANGED <<Files, Synced, Deleted, uploads>>
    /\ EndHeldCall("edit")

\* Index.StageFile while the caller holds a slice.
HeldStageFile(path) ==
    /\ \E r \in {StageFileOp(Index, path)} :
          /\ SetIndex(r.idx)
          /\ held' = IF r.kind = "file"
                     THEN Detached(held, {"Files", "Deleted"}, path) ELSE held
    /\ UNCHANGED uploads
    /\ EndHeldCall("index")

\* Index.MarkSynced while the caller holds a slice.
HeldMarkSynced(path, remoteURL) ==
    /\ path \in DOMAIN Files => uploads < MaxUploads
    /\ uploads' = IF path \in DOMAIN Files THEN uploads + 1 ELSE uploads
    /\ \E idx \in {MarkSyncedOp(Index, path, remoteURL)} :
          /\ SetIndex(idx)
          /\ held' = IF path \in DOMAIN Files
                     THEN Moved(held, "Files", "Synced", path, idx.Synced[path])
                     ELSE held
    /\ EndHeldCall("index")

\* The slice after the deletion loop of a scan has moved the paths of gone.
RECURSIVE MovedAll(_, _, _)
MovedAll(slice, gone, deleted) ==
    IF gone = {} THEN slice
    ELSE LET p == CHOOSE x \in gone : TRUE IN
         MovedAll(Moved(slice, "Synced", "Deleted", p, deleted[p]), gone \ {p}, deleted)

\* Index.ScanWorkingDirectory while the caller holds a slice.
HeldScan ==
    /\ \E q \in ScanOrders(Index) :
       \E r \in {ScanOp(Index, q)} :
          /\ SetIndex(r.idx)
          /\ held' = MovedAll(held, {q[i] : i \in DOMAIN q}, r.idx.Deleted)
    /\ UNCHANGED uploads
    /\ EndHeldCall("index")

\* A caller that keeps the slices it gets while it goes on using the Index.
NextHeld ==
    \/ KeepStagedFiles
    \/ KeepAllFiles
    \/ \E h \in held, u \in {"", "edited"} : EditHeldRecord(h, u)
    \/ \E h \in held : DropHeldRecord(h)
    \/ \E p \in CallPaths : HeldStageFile(p)
    \/ \E p \in CallPaths : HeldMarkSynced(p, "u1")
    \/ HeldScan
    \/ \E p \in EditedPaths : RemoveFile(p)

SpecHeld == Init /\ [][NextHeld]_vars

\* Goroutines calling into one Index at the same time, while a file of the
\* working tree can disappear.
NextProcs ==
    \/ \E t \in Procs, c \in ProcCalls : Call(t, c)
    \/ \E t \in Procs : Step(t)
    \/ \E p \in EditedPaths : RemoveFile(p)

SpecProcs == Init /\ [][NextProcs]_vars

\* The goroutine scheduler runs every goroutine that can take a step.
SpecProcsFair == SpecProcs /\ \A t \in Procs : WF_vars(Step(t))

\* ------------------------------------------------------------ properties
\* A slice that names no path twice.
NoDuplicates(list) == Cardinality(PathsOf(list)) = Len(list)

\* m and m2 agree on every path but p.
SameElsewhere(m, m2, p) ==
    \A q \in FilePaths \ {p} :
        /\ q \in DOMAIN m <=> q \in DOMAIN m2
        /\ q \in DOMAIN m => m[q] = m2[q]

\* p is a regular file a scan of the current working tree reaches and hashes.
ReadByScan(p) ==
    /\ fs[p].exists /\ fs[p].readable
    /\ ~\E d \in Dirs \ {Root} :
           /\ IsUnder(p, d)
           /\ \/ StartsWithDot(BaseName(d))
              \/ BaseName(d) \in {"build", "cmake-build-debug"}
    /\ \A d \in unlistable : ~IsUnder(p, d)

\* p is in Synced and the working tree holds other content for it.
SyncedModified(p) ==
    /\ p \in DOMAIN Synced
    /\ ReadByScan(p)
    /\ hashFile(fs[p].data) # Synced[p].Hash

\* The record a stage of the readable file p must store.
FreshStaged(p) ==
    [Path         |-> p,
     Size         |-> SizeOf(fs[p].data),
     Hash         |-> hashFile(fs[p].data),
     LastModified |-> fs[p].mtime,
     Status       |-> StatusStaged,
     RemoteURL    |-> IF p \in DOMAIN Synced THEN Synced[p].RemoteURL ELSE ""]

\* C1: no path is a key of more than one of Files, Synced and Deleted.
C1_OnePopulationPerPath ==
    \A p \in FilePaths :
        /\ ~(p \in DOMAIN Files /\ p \in DOMAIN Synced)
        /\ ~(p \in DOMAIN Files /\ p \in DOMAIN Deleted)
        /\ ~(p \in DOMAIN Synced /\ p \in DOMAIN Deleted)

\* C2: MarkSynced(p, u) on a staged path p removes p from Files and puts the
\* staged record, with status Synced and RemoteURL u, into Synced in place of
\* any earlier record; the entries of every other path stay as they were.
C2_MarkSyncedMovesStagedRecord ==
    [][\A p \in FilePaths, u \in URLs :
         (p \in DOMAIN Files /\ MarkSynced(p, u)) =>
            /\ p \notin DOMAIN Files'
            /\ p \in DOMAIN Synced'
            /\ Synced'[p] = [Files[p] EXCEPT !.Status = StatusSynced, !.RemoteURL = u]
            /\ Synced'[p].Hash = Files[p].Hash
            /\ Synced'[p].Size = Files[p].Size
            /\ SameElsewhere(Files, Files', p)
            /\ SameElsewhere(Synced, Synced', p)
            /\ SameElsewhere(Deleted, Deleted', p)]_vars

\* A second upload of b.txt has replaced its synced record by the staged one,
\* while a.txt stayed staged.
C2_Witness ==
    /\ uploads = 2
    /\ "b.txt" \in DOMAIN Synced /\ "b.txt" \notin DOMAIN Files
    /\ Synced["b.txt"].Hash = "H2" /\ Synced["b.txt"].RemoteURL = "u1"
    /\ Synced["b.txt"].Status = StatusSynced
    /\ "a.txt" \in DOMAIN Files
    /\ DOMAIN Synced = {"b.txt"} /\ DOMAIN Deleted = {}

\* C3: when a push applies a server response, every pushed path listed in
\* uploaded_files is in Synced with status Synced and the remote URL of its
\* entry and is no longer in Files; every other pushed path, listed in errors
\* or in neither part, is still in Files with status Staged; and the index
\* file written by the command loads as exactly this Index.
C3_PushAppliesResponse ==
    [][last'.kind = "response" =>
         LET up == PathsOf(last'.uploaded) IN
         /\ \A i \in DOMAIN last'.uploaded :
               LET e == last'.uploaded[i] IN
               /\ e.Path \in DOMAIN Synced'
               /\ e.Path \notin DOMAIN Files'
               /\ Synced'[e.Path].Status = StatusSynced
               /\ Synced'[e.Path].RemoteURL = e.RemoteURL
         /\ \A p \in last'.pushed \ up :
               /\ p \in DOMAIN Files'
               /\ Files'[p].Status = StatusStaged
         /\ DOMAIN Files' = last'.pushed \ up
         /\ disk'.exists
         /\ LoadIndex(disk') = Index']_vars

\* A push of three staged files got a response that lists one as uploaded and
\* one as failed and leaves the third out; the index file holds the split.
C3_Witness ==
    /\ last.kind = "response"
    /\ last.pushed = {"a.txt", "b.txt", "build/o.bin"}
    /\ PathsOf(last.uploaded) = {"b.txt"}
    /\ last.errors = {"a.txt"}
    /\ DOMAIN Synced = {"b.txt"}
    /\ DOMAIN Files = {"a.txt", "build/o.bin"}
    /\ DOMAIN LoadIndex(disk).Synced = {"b.txt"}
    /\ DOMAIN LoadIndex(disk).Files = {"a.txt", "build/o.bin"}

\* C4: a successful StageFile of the regular file p stores a freshly computed
\* record with status Staged under p, with the RemoteURL of p's synced record
\* (empty when there is none), and p is not in Deleted afterwards.
C4_StageFileStoresFreshRecord ==
    [][\A p \in FilePaths :
         (fs[p].exists /\ fs[p].readable /\ StageFile(p)) =>
            /\ p \in DOMAIN Files'
            /\ Files'[p] = FreshStaged(p)
            /\ p \notin DOMAIN Deleted']_vars

\* A modified synced file has been staged again: new hash, old remote URL.
C4_Witness ==
    \E p \in FilePaths :
        /\ p \in DOMAIN Files /\ p \in DOMAIN Synced
        /\ fs[p].exists /\ fs[p].readable
        /\ Files[p] = FreshStaged(p)
        /\ Files[p].Hash # Synced[p].Hash
        /\ Files[p].RemoteURL = "u1"

\* C5: a scan moves exactly the paths of Synced that the walk did not read as a
\* regular file: each is returned once in deletedFiles, leaves Synced and
\* enters Deleted with its synced record; every other entry of Synced and
\* Deleted stays as it was.
C5_ScanMovesExactlyUnseen ==
    [][last'.kind = "scan" =>
         LET gone == {p \in DOMAIN Synced : ~ReadByScan(p)} IN
         /\ PathsOf(last'.deletedFiles) = gone
         /\ NoDuplicates(last'.deletedFiles)
         /\ DOMAIN Synced' = DOMAIN Synced \ gone
         /\ DOMAIN Deleted' = DOMAIN Deleted \cup gone
         /\ \A p \in gone :
               /\ Deleted'[p].Hash = Synced[p].Hash
               /\ Deleted'[p].RemoteURL = Synced[p].RemoteURL
               /\ \E i \in DOMAIN last'.deletedFiles : last'.deletedFiles[i] = Deleted'[p]
         /\ \A p \in DOMAIN Synced \ gone : Synced'[p] = Synced[p]
         /\ \A p \in DOMAIN Deleted \ gone : Deleted'[p] = Deleted[p]]_vars

\* A scan has moved the removed b.txt and kept the synced file it read.
C5_Witness ==
    /\ last.kind = "scan"
    /\ PathsOf(last.deletedFiles) = {"b.txt"}
    /\ ~fs["b.txt"].exists
    /\ "b.txt" \in DOMAIN Deleted /\ "b.txt" \notin DOMAIN Synced
    /\ \E p \in DOMAIN Synced : ReadByScan(p)

C7_ScanClassifiesBySyncedAlone ==
    [][last'.kind = "scan" =>
         /\ \A p \in FilePaths :
               /\ p \in PathsOf(last'.newFiles) <=>
                     (ReadByScan(p) /\ p \notin DOMAIN Synced)
               /\ p \in PathsOf(last'.modifiedFiles) <=>
                     (ReadByScan(p) /\ p \in DOMAIN Synced
                        /\ Synced[p].Hash # hashFile(fs[p].data))
         /\ PathsOf(last'.newFiles) \cap PathsOf(last'.modifiedFiles) = {}
         /\ PathsOf(last'.newFiles) \cap PathsOf(last'.deletedFiles) = {}
         /\ PathsOf(last'.modifiedFiles) \cap PathsOf(last'.deletedFiles) = {}
         /\ NoDuplicates(last'.newFiles)
         /\ NoDuplicates(last'.modifiedFiles)
         /\ Files' = Files]_vars

\* A scan has passed over a staged, synced, unchanged file without reporting
\* it, and has reported a staged file that is not synced as new.
C7_Witness ==
    /\ last.kind = "scan"
    /\ \E p \in DOMAIN Files \cap DOMAIN Synced :
          /\ ReadByScan(p)
          /\ Synced[p].Hash = hashFile(fs[p].data)
          /\ p \notin PathsOf(last.newFiles) \cup PathsOf(last.modifiedFiles)
                      \cup PathsOf(last.deletedFiles)
    /\ \E p \in DOMAIN Files \ DOMAIN Synced : p \in PathsOf(last.newFiles)

\* C8: right after a scan, no path of Deleted and no path of the returned
\* deletedFiles exists in the working tree.
C8_DeletedAbsentAfterScan ==
    last.kind = "scan" =>
        \A p \in DOMAIN Deleted \cup PathsOf(last.deletedFiles) : ~fs[p].exists

\* C9: a StageDirectory(d) that returns no error leaves Files and Deleted as
\* StageFile on each regular file below d outside hidden directories does.
C9_StageDirectoryAsStageFile ==
    [][\A d \in Dirs :
         (StageDirectory(d) /\ last'.kind = "none") =>
            LET S == {p \in FilePaths :
                        /\ IsUnder(p, d)
                        /\ fs[p].exists
                        /\ ~\E h \in Dirs \ {Root} :
                               IsUnder(p, h) /\ StartsWithDot(BaseName(h))} IN
            /\ Files' = [p \in DOMAIN Files \cup S |->
                            IF p \in S THEN FreshStaged(p) ELSE Files[p]]
            /\ Deleted' = [p \in DOMAIN Deleted \ S |-> Deleted[p]]
            /\ Synced' = Synced]_vars

\* C10: a StageFile that stores no record (the file is missing or unreadable:
\* error; the path is a directory: no error) leaves Files, Synced and Deleted
\* as they were.
C10_FailedStageFileChangesNothing ==
    [][\A p \in FilePaths \cup Dirs :
         (StageFile(p) /\ (p \in Dirs \/ ~fs[p].exists \/ ~fs[p].readable)) =>
            /\ Files' = Files
            /\ Synced' = Synced
            /\ Deleted' = Deleted
            /\ last'.kind = "error" <=> p \notin Dirs]_vars

\* A StageFile has failed on a missing file that is staged and in Deleted.
C10_Witness ==
    /\ last.kind = "error"
    /\ \E p \in FilePaths :
          /\ ~fs[p].exists
          /\ p \in DOMAIN Files /\ p \in DOMAIN Deleted

\* The walk cannot read entry e: a file that is missing or cannot be opened,
\* a directory whose entries cannot be read, or anything below such a directory.
FailsInWalk(e) ==
    \/ e \in FilePaths /\ (~fs[e].exists \/ ~fs[e].readable)
    \/ \E d \in unlistable : IsUnder(e, d)

\* C11: a scan returns its three slices and no error, and its newFiles and
\* modifiedFiles are exactly those of a walk over the same tree with every
\* entry the walk cannot read taken out: a failing entry is passed over and
\* changes the classification of no other file.
C11_ScanSkipsFailingEntries ==
    [][(last'.kind \in {"error", "walk error"} => ~ScanWorkingDirectory) /\
       (last'.kind = "scan" =>
          LET entries == SelectSeq(WalkEntries(Root), LAMBDA e : ~FailsInWalk(e))
              ref == ScanWalk(Index, entries, 1,
                              [skipped |-> {}, seen |-> {}, newFiles |-> <<>>,
                               modifiedFiles |-> <<>>, unchangedFiles |-> <<>>])
          IN  /\ last'.newFiles = ref.newFiles
              /\ last'.modifiedFiles = ref.modifiedFiles
              /\ \A p \in FilePaths :
                    FailsInWalk(p) =>
                       p \notin PathsOf(last'.newFiles) \cup PathsOf(last'.modifiedFiles))]_vars

\* A scan has passed over the unreadable b.txt and still reported a.txt as new.
C11_Witness ==
    /\ last.kind = "scan"
    /\ fs["b.txt"].exists /\ ~fs["b.txt"].readable
    /\ unlistable = {}
    /\ PathsOf(last.newFiles) = {"a.txt"}
    /\ last.modifiedFiles = <<>>

\* C12: MarkSynced(p, u) on a path p that is not staged changes nothing in
\* Files, Synced or Deleted and returns nothing, whatever p's entries in
\* Synced and Deleted are.
C12_MarkSyncedUnstagedIsNoOp ==
    [][\A p \in FilePaths, u \in URLs :
         (p \notin DOMAIN Files /\ MarkSynced(p, u)) =>
            /\ Files' = Files
            /\ Synced' = Synced
            /\ Deleted' = Deleted
            /\ uploads' = uploads
            /\ last'.kind = "none"]_vars

\* a.txt has a synced record with a remote URL and is not staged while b.txt
\* is; MarkSynced(a.txt, "") has run and left the Index as it was.
C12_Witness ==
    /\ last.kind = "none"
    /\ "a.txt" \notin DOMAIN Files /\ "b.txt" \in DOMAIN Files
    /\ "a.txt" \in DOMAIN Synced /\ Synced["a.txt"].RemoteURL = "u1"
    /\ MarkSyncedOp(Index, "a.txt", "") = Index
    /\ ENABLED MarkSynced("a.txt", "")

\* C13: UnstageFile(p) removes p's entry from Files and nothing else: every
\* other staged path, Synced, Deleted, the collections and the default
\* collection stay as they were; when p is not staged nothing changes; and a
\* second UnstageFile(p) changes nothing more.
C13_UnstageFileRemovesOnlyStagedEntry ==
    [][\A p \in FilePaths :
         UnstageFile(p) =>
            /\ p \notin DOMAIN Files'
            /\ SameElsewhere(Files, Files', p)
            /\ Synced' = Synced
            /\ Deleted' = Deleted
            /\ Collections' = Collections
            /\ DefaultCollection' = DefaultCollection
            /\ (p \notin DOMAIN Files => Files' = Files)
            /\ UnstageFileOp(Index', p) = Index'
            /\ last'.kind = "none"]_vars

\* a.txt is not staged but keeps its synced record, b.txt is still staged:
\* the state UnstageFile(a.txt) leaves, once or twice applied.
C13_Witness ==
    /\ last.kind = "none"
    /\ "a.txt" \notin DOMAIN Files /\ "b.txt" \in DOMAIN Files
    /\ "a.txt" \in DOMAIN Synced /\ "a.txt" \in DOMAIN Deleted
    /\ UnstageFileOp(Index, "a.txt") = Index
    /\ ENABLED UnstageFile("a.txt")

\* C14: every record of Synced has a non-empty RemoteURL.
C14_SyncedHasRemoteURL ==
    \A p \in DOMAIN Synced : Synced[p].RemoteURL # ""

\* The records a step produced for path p: the record staged by a StageFile or
\* StageDirectory step, and the records of the slices a scan returned.
ProducedFor(p) ==
    (IF p \in DOMAIN Files' /\ (p \notin DOMAIN Files \/ Files'[p] # Files[p])
     THEN {Files'[p]} ELSE {})
    \cup {last'.newFiles[i] : i \in {j \in DOMAIN last'.newFiles : last'.newFiles[j].Path = p}}
    \cup {last'.modifiedFiles[i] :
             i \in {j \in DOMAIN last'.modifiedFiles : last'.modifiedFiles[j].Path = p}}
    \cup {last'.deletedFiles[i] :
             i \in {j \in DOMAIN last'.deletedFiles : last'.deletedFiles[j].Path = p}}

\* C15: once a path has been marked synced with a non-empty remote URL, every
\* record a StageFile, StageDirectory or ScanWorkingDirectory step produces for
\* it carries a non-empty RemoteURL.
C15_RemoteURLKeptOnceSynced ==
    [][\A p \in FilePaths :
         ((p \in DOMAIN Synced /\ Synced[p].RemoteURL # "")
            \/ (p \in DOMAIN Deleted /\ Deleted[p].RemoteURL # ""))
         => \A f \in ProducedFor(p) : f.RemoteURL # ""]_vars

\* C16: the default collection is empty or the name of a registered
\* collection, it is empty when no collection is registered, and
\* GetDefaultCollection returns the registered default collection or
\* ErrNoDefaultCollection, never ErrCollectionNotFound.
C16_DefaultCollectionIsRegistered ==
    /\ DefaultCollection = "" \/ DefaultCollection \in DOMAIN Collections
    /\ DOMAIN Collections = {} => DefaultCollection = ""
    /\ LET r == GetDefaultCollectionOp(Registry) IN
       IF DefaultCollection = "" THEN r.err = ErrNoDefaultCollection
       ELSE r.err = NoError /\ r.collection = Collections[DefaultCollection]

\* A call on an unregistered name has just failed in a registry that holds two
\* collections, the default being "d"; GetDefaultCollection returns it.
C16_Witness ==
    /\ DOMAIN Collections = {"C", "d"}
    /\ DefaultCollection = "d"
    /\ last.kind = ErrCollectionNotFound
    /\ GetDefaultCollectionOp(Registry).err = NoError
    /\ GetDefaultCollectionOp(Registry).collection.Name = "d"

\* C17: an AddCollection that returns no error stores the collection under its
\* name and makes it the default exactly when no collection was registered
\* before; otherwise the default stays as it was.
C17_FirstAddedBecomesDefault ==
    [][\A c \in CollectionInputs :
         (AddCollection(c) /\ last'.kind = NoError) =>
            /\ c.Name \notin DOMAIN Collections
            /\ Collections' = Put(Collections, c.Name, c)
            /\ DefaultCollection' = IF DOMAIN Collections = {} THEN c.Name
                                    ELSE DefaultCollection]_vars

\* "c" was added first and "C" after it: both are registered, "c" is the default.
C17_Witness ==
    /\ DOMAIN Collections = {"c", "C"}
    /\ DefaultCollection = "c"
    /\ last.kind = NoError

C19_AddExistingFails ==
    [][\A c \in CollectionInputs :
         (Validate(c) /\ AddCollection(c)) =>
            IF c.Name \in DOMAIN Collections
            THEN /\ last'.kind = ErrCollectionExists
                 /\ Collections' = Collections
                 /\ DefaultCollection' = DefaultCollection
            ELSE /\ last'.kind = NoError
                 /\ c.Name \in DOMAIN Collections']_vars

\* An AddCollection of a second "c" has failed while "c" and "C" are both
\* registered, "c" with the path it was first added with.
C19_Witness ==
    /\ last.kind = ErrCollectionExists
    /\ DOMAIN Collections = {"c", "C"}
    /\ Collections["c"].Path = "p"
    /\ DefaultCollection = "C"

\* The step is a registry call on a name that is not registered, other than
\* an UpdateCollection; it must fail with ErrCollectionNotFound.
LookupOfUnregistered ==
    \E n \in CollNames \ DOMAIN Collections :
        RemoveCollection(n) \/ SetDefaultCollection(n) \/ GetCollection(n)

\* The step returned ErrCollectionNotFound and left the registry as it was.
FailsNotFound ==
    /\ last'.kind = ErrCollectionNotFound
    /\ Collections' = Collections
    /\ DefaultCollection' = DefaultCollection

\* An UpdateCollection(c) that returns no error replaces the collection
\* registered under c.Name and changes nothing else.
UpdateReplacesOne(c) ==
    (UpdateCollection(c) /\ last'.kind = NoError) =>
        /\ c.Name \in DOMAIN Collections
        /\ Collections' = [Collections EXCEPT ![c.Name] = c]
        /\ DefaultCollection' = DefaultCollection

\* C20 as stated: UpdateCollection, RemoveCollection, SetDefaultCollection and
\* GetCollection on a name that is not registered return
\* ErrCollectionNotFound and leave Collections and the default unchanged, and
\* a successful UpdateCollection replaces only that collection.
C20_UnregisteredNameNotFound ==
    [][/\ LookupOfUnregistered => FailsNotFound
       /\ \A c \in CollectionInputs :
             /\ (c.Name \notin DOMAIN Collections /\ UpdateCollection(c)) => FailsNotFound
             /\ UpdateReplacesOne(c)]_vars

\* C20, amended: as C20, but UpdateCollection answers ErrCollectionNotFound
\* for an unregistered name only when the collection passes validation; an
\* invalid collection is rejected by validation first, whatever its name, and
\* the registry is unchanged in that case too.
C20_ValidUnregisteredNameNotFound ==
    [][/\ LookupOfUnregistered => FailsNotFound
       /\ \A c \in CollectionInputs :
             /\ (c.Name \notin DOMAIN Collections /\ UpdateCollection(c)) =>
                   /\ last'.kind = IF Validate(c) THEN ErrCollectionNotFound
                                   ELSE ErrInvalid
                   /\ Collections' = Collections
                   /\ DefaultCollection' = DefaultCollection
             /\ UpdateReplacesOne(c)]_vars

\* An UpdateCollection on the unregistered name "C" has failed and added
\* nothing: "c" and "d" are registered as before, "d" is the default.
C20_Witness ==
    /\ last.kind = ErrCollectionNotFound
    /\ DOMAIN Collections = {"c", "d"}
    /\ DefaultCollection = "d"
    /\ \E c \in CollectionInputs :
          /\ c.Name = "C" /\ Validate(c)
          /\ UpdateCollectionOp(Registry, c).err = ErrCollectionNotFound
          /\ UpdateCollectionOp(Registry, c).reg = Registry

\* C21: AddCollection and UpdateCollection of a collection with an empty
\* name, an empty path, a type other than bucket and table, a table without
\* schema or a bucket with a schema return the validation error and leave
\* the registry as it was; so every stored collection has a schema exactly
\* when it is a table.
C21_MalformedCollectionRejected ==
    [][ /\ \A n \in DOMAIN Collections' :
              (Collections'[n].Schema # NoSchema)
                  <=> (Collections'[n].Type = CollectionTypeTable)
        /\ \A c \in CollectionInputs :
              (/\ \/ c.Name = ""
                  \/ c.Path = ""
                  \/ c.Type \notin {CollectionTypeBucket, CollectionTypeTable}
                  \/ (c.Type = CollectionTypeTable /\ c.Schema = NoSchema)
                  \/ (c.Type = CollectionTypeBucket /\ c.Schema # NoSchema)
               /\ (AddCollection(c) \/ UpdateCollection(c)))
              => /\ last'.kind = ErrInvalid
                 /\ Collections' = Collections
                 /\ DefaultCollection' = DefaultCollection ]_vars

\* A malformed collection has just been rejected by a registry that holds a
\* table with a schema and a bucket without one.
C21_Witness ==
    /\ last.kind = ErrInvalid
    /\ \E n \in DOMAIN Collections :
          Collections[n].Type = CollectionTypeTable /\ Collections[n].Schema # NoSchema
    /\ \E n \in DOMAIN Collections :
          Collections[n].Type = CollectionTypeBucket /\ Collections[n].Schema = NoSchema

\* The Index after StageFile calls on the paths of q, made one after another.
RECURSIVE StageInTurn(_, _, _)
StageInTurn(idx, q, i) ==
    IF i > Len(q) THEN idx ELSE StageInTurn(StageFileOp(idx, q[i]).idx, q, i + 1)

\* Every goroutine made one call, a StageFile of a file of its own, all calls
\* have returned, and the working tree is as it was when they were made.
StageCallsReturned ==
    /\ issued = NumProcs
    /\ fsChanges = 0
    /\ \A t \in Procs : procs[t].pc = "done" /\ procs[t].call.op = "StageFile"
    /\ \A t, u \in Procs : t # u => procs[t].call.path # procs[u].call.path

\* C22: StageFile calls on distinct readable files, made by goroutines that
\* run at the same time, end with exactly those paths staged, each with the
\* record of its own file and status Staged, which is the Index the same
\* calls give when made one after another in any order.
C22_ConcurrentStageFilesAllStored ==
    StageCallsReturned =>
        LET paths == {procs[t].call.path : t \in Procs} IN
        /\ DOMAIN Files = paths
        /\ \A p \in paths : Files[p] = FreshStaged(p) /\ Files[p].Status = StatusStaged
        /\ \A q \in Orders(paths) : Index = StageInTurn(NewIndex, q, 1)

\* Two goroutines staged a.txt and b.txt and both calls have returned.
C22_Witness ==
    /\ StageCallsReturned
    /\ {procs[t].call.path : t \in Procs} = {"a.txt", "b.txt"}
    /\ \A t \in Procs : procs[t].local.kind = "file"

\* C23: no goroutine is inside the Index while a writer is, so no two
\* writers are inside together and a reader never runs during a writer's
\* move; what GetStagedFiles, GetAllFiles and Save have read when they
\* return is the Index as it stands, not a state in the middle of a writer.
C23_OperationsAtomicUnderLock ==
    /\ \A t, u \in Procs :
          (t # u /\ Inside(t) /\ IsWriter(procs[t].call)) => ~Inside(u)
    /\ \A t \in Procs :
          /\ At(t, "GetStagedFiles", "ret")
             => procs[t].local = [kind |-> "slice", files |-> RecordsOf(Files)]
          /\ At(t, "GetAllFiles", "ret")
             => procs[t].local = [kind |-> "slice", files |-> RecordsOf(Files),
                                  synced |-> RecordsOf(Synced),
                                  deleted |-> RecordsOf(Deleted)]
          /\ At(t, "Save", "write") => procs[t].local.doc = EncodeIndex(Index)
          /\ At(t, "Save", "ret") => disk = SaveOp(Index)

\* MarkSynced has stored a record in Synced and not yet deleted it from Files,
\* while another goroutine waits in the RLock of GetAllFiles.
C23_Witness ==
    \E t, u \in Procs :
        /\ At(t, "MarkSynced", "unlink")
        /\ procs[t].call.path \in DOMAIN Files \cap DOMAIN Synced
        /\ At(u, "GetAllFiles", "lock")

\* C30: a goroutine holds the lock exactly while it is inside a method, so
\* every return path has released it and no method takes the lock while
\* holding it; a goroutine blocked in Lock or RLock waits only for goroutines
\* that are inside, and every call that was made returns.
C30_EveryCallReturns ==
    /\ [](\A t \in Procs : (mu.writer = t \/ t \in mu.readers) <=> Inside(t))
    /\ []((\E t \in Procs : procs[t].pc = "lock")
            => \/ \E u \in Procs : Inside(u)
               \/ LockFree(mu))
    /\ \A t \in Procs : (procs[t].pc = "lock") ~> (procs[t].pc = "done")

\* All calls have been made and have returned, one of them with an error,
\* and nobody holds the mutex.
C30_Witness ==
    /\ issued = MaxCalls
    /\ \A t \in Procs : procs[t].pc = "done"
    /\ \E t \in Procs : procs[t].local.kind = "err" /\ procs[t].call.op = "StageFile"
    /\ mu = Unlocked

\* C24: the index file Save writes is loaded by LoadIndex as an Index whose
\* Files, Synced, Deleted, Collections and DefaultCollection equal those
\* saved, whatever populations are empty.
C24_SaveThenLoadIsIdentity ==
    [][last'.kind = "saved" => (~LoadError(disk') /\ LoadIndex(disk') = Index')]_vars

\* C25: a Save that fails or is interrupted while writing leaves an index
\* file LoadIndex reads as the complete previous or the complete new Index.
C25_InterruptedSaveKeepsFileWhole ==
    [][last'.kind = "interrupted"
         => /\ ~LoadError(disk')
            /\ LoadIndex(disk') \in
                  {Index} \cup (IF LoadError(disk) THEN {} ELSE {LoadIndex(disk)})]_vars

\* C26: the slices GetStagedFiles and GetAllFiles return are copies: a
\* change the caller makes to a slice or to a record in it changes no
\* population, and a later operation of the Index (StageFile, MarkSynced,
\* ScanWorkingDirectory) changes no record of a slice returned earlier.
C26_ReturnedSlicesAreCopies ==
    [][ /\ last'.kind = "edit" => Index' = Index
        /\ last'.kind = "index" => ({h.rec : h \in held'}) = ({h.rec : h \in held}) ]_vars

\* C27: the status of a record is fixed by the population that holds it:
\* Staged in Files, Synced in Synced, Untracked in Deleted.
C27_StatusFixedByPopulation ==
    /\ \A p \in DOMAIN Files : Files[p].Status = StatusStaged
    /\ \A p \in DOMAIN Synced : Synced[p].Status = StatusSynced
    /\ \A p \in DOMAIN Deleted : Deleted[p].Status = StatusUntracked

\* The three populations hold a record each at the same time, the staged one
\* of a path that was synced before with another hash (classified Modified
\* before the status was forced to Staged).
C27_Witness ==
    /\ DOMAIN Deleted # {}
    /\ \E p \in DOMAIN Files \cap DOMAIN Synced : Files[p].Hash # Synced[p].Hash

\* C28: a scan leaves a synced file whose content still has the digest taken
\* at staging time in Synced and reports it in none of its three slices; a
\* synced file whose content has another digest is reported in modifiedFiles.
C28_ScanAfterMarkSynced ==
    [][last'.kind = "scan" =>
         \A p \in DOMAIN Synced :
             fs[p].exists =>
                 IF hashFile(fs[p].data) = Synced[p].Hash
                 THEN /\ p \notin PathsOf(last'.newFiles) \cup PathsOf(last'.modifiedFiles)
                                       \cup PathsOf(last'.deletedFiles)
                      /\ p \in DOMAIN Synced'
                      /\ Synced'[p] = Synced[p]
                 ELSE p \in PathsOf(last'.modifiedFiles)]_vars

\* C29: a push whose upload call returns an error, or whose staging of a
\* scanned file fails, leaves the index file exactly as it was.
C29_FailedPushKeepsIndexFile ==
    [][last'.kind \in {"push failed", "stage failed"} => disk' = disk]_vars

\* An upload failed after 'push all' had staged a path the index file does
\* not hold as staged and after its scan had moved a synced record to Deleted
\* that the index file still holds as synced.
C29_Witness ==
    /\ last.kind = "push failed"
    /\ \E p \in last.pushed : p \notin DOMAIN LoadIndex(disk).Files
    /\ \E p \in DOMAIN LoadIndex(disk).Synced : ~fs[p].exists

====
